---- MODULE Spec2Model ----
(***************************************************************************)
(* The persisted job queue of the image-to-text generator and its single   *)
(* consumer worker loop (app/jobs.py, app/job_queue.py, app/senders.py,    *)
(* app/errors.py).                                                         *)
(*                                                                         *)
(* The store is the sqlite table `jobs`.  The worker is process_jobs, cut  *)
(* into one action per statement group that touches the store, calls a     *)
(* sender, runs the extraction or sleeps, so that the HTTP handlers, a     *)
(* store error and a process crash can fall between any two of them.       *)
(***************************************************************************)
EXTENDS Integers, Sequences, FiniteSets, TLC

(***************************************************************************)
(* Program constants.                                                      *)
(***************************************************************************)
\* errors.py: MAX_RETRY_ATTEMPTS = 3
MAX_RETRY_ATTEMPTS == 3

\* errors.py: RETRY_DELAYS = [5, 10, 20]
RETRY_DELAYS == <<5, 10, 20>>

\* jobs.py: sleep_time = 5 (the default sleep of a cycle), time.sleep(5)
DEFAULT_SLEEP == 5

\* errors.py: MAX_IMAGE_SIZE_BYTES = 10 * 1024 * 1024
MAX_IMAGE_SIZE_BYTES == 10 * 1024 * 1024

(***************************************************************************)
(* Bounds of the model.                                                    *)
(***************************************************************************)
\* number of rows ever inserted
MaxJobs == 3

\* number of store errors and process crashes in a run
MaxFaults == 2

\* largest retry attempt number the delay computation is applied to
MaxAttempt == 60

\* how many times init_db is applied to one database file
MaxInit == 3

\* requests of the HTTP layer: image_core_id, image_path, model
CoreIds == {1, 2}

ImagePaths == {"a.jpg"}

Models == {"test"}

\* descriptions an extraction can return; the empty string is one of them
Descriptions == {"", "a meme"}

\* str(e) of the errors an extraction can raise
PermanentMessages == {"Image file not found: a.jpg"}

TransientMessages == {"Model download failed: timeout"}

UnexpectedMessages == {"boom"}

StoreErrorMessage == "database is locked"

\* str(e) of an exception of requests.post
RequestErrorMessage == "connection refused"

\* how a requests.post can end: status code 200, another status code, an exception
HttpOutcomes == {"200", "500", "exception"}


VARIABLES
    jobs,             \* the rows of table jobs
    seq,              \* sqlite_sequence of the AUTOINCREMENT key: largest id ever assigned
    pc,               \* the worker's position in process_jobs
    lock,             \* jobs.lock is held
    conn,             \* the worker's sqlite connection is open
    job,              \* the row fetched in this cycle, or None
    sleep_time,       \* local sleep_time
    new_retry_count,  \* local new_retry_count (-1: not assigned in this cycle)
    caught,           \* the except clause of the inner try that ran in this cycle
    e,                \* str(e) of the exception that clause caught ("" if none)
    description,      \* output_job_details["description"] ("" until assigned)
    error_msg,        \* the message handed to handle_job_failure ("" until assigned)
    raised,           \* the store statement that raised in this cycle ("none" if none)
    events,           \* what the worker did in this cycle, in order
    api,              \* the notifications of the last HTTP request
    faults,           \* store errors and crashes so far
    http,             \* how the requests of the sender call just made ended
    crashed,          \* the row in hand when the process last died before the end of
                      \* its extraction, until the next fetch is over (None if none)
    enqueued,         \* rows inserted so far
    deleted,          \* rows deleted so far
    d_n, d_delay, d_phase,  \* the delay computation applied on its own
    db,               \* init_db applied on its own: the database file it is given
    db_applied,       \* how many times init_db has been applied to db
    db_error,         \* the exception the last init_db let out ("none" if none)
    x_in,             \* image_to_text applied on its own: the file and the model's doings
    x_out,            \* what image_to_text returned or raised
    x_phase           \* "off", "in" (not yet applied), "out" (applied)

wvars == <<pc, lock, conn, job, sleep_time, new_retry_count, caught, e,
           description, error_msg, raised, events, http, crashed>>

ivars == <<db, db_applied, db_error>>

xvars == <<x_in, x_out, x_phase>>

\* The variables of the functions applied on their own.
dvars == <<d_n, d_delay, d_phase, ivars, xvars>>

vars == <<jobs, seq, pc, lock, conn, job, sleep_time, new_retry_count, caught, e,
          description, error_msg, raised, events, api, faults, http, crashed,
          enqueued, deleted, d_n, d_delay, d_phase, db, db_applied, db_error,
          x_in, x_out, x_phase>>

(***************************************************************************)
(* Helpers.                                                                *)
(***************************************************************************)
Min(a, b) == IF a < b THEN a ELSE b

\* Python list indexing: a negative index counts from the end.
PyIndex(list, i) == IF i < 0 THEN list[Len(list) + i + 1] ELSE list[i + 1]

\* One row of table jobs.
Row(id, image_core_id, image_path, model, retry_count) ==
    [id |-> id, image_core_id |-> image_core_id, image_path |-> image_path,
     model |-> model, retry_count |-> retry_count]

\* What the worker does in a cycle, in the order it does it: the requests it
\* sends, the extraction (res: "ok" or the exception it raised, text: what it
\* returned or str(e)), the statements that changed the table, the sleep.
StatusEv(image_core_id, status) ==
    [kind |-> "status", who |-> image_core_id, num |-> status, text |-> "", res |-> ""]

DescriptionEv(image_core_id, text) ==
    [kind |-> "description", who |-> image_core_id, num |-> 0, text |-> text, res |-> ""]

ExtractEv(id, res) ==
    [kind |-> "extract", who |-> id, num |-> 0, text |-> res.text, res |-> res.kind]

DeleteEv(id) == [kind |-> "delete", who |-> id, num |-> 0, text |-> "", res |-> ""]

IncrementEv(id, n) ==
    [kind |-> "increment", who |-> id, num |-> n, text |-> "", res |-> ""]

SleepEv(n) == [kind |-> "sleep", who |-> 0, num |-> n, text |-> "", res |-> ""]

\* What GET /check_queue answers: {"queue_length": n}
QueueLengthEv(n) ==
    [kind |-> "queue_length", who |-> 0, num |-> n, text |-> "", res |-> ""]

\* cursor.fetchone() of an empty result
None == Row(0, 0, "", "", 0)

(***************************************************************************)
(* The statements the program runs on table jobs.                          *)
(***************************************************************************)
\* SELECT ... ORDER BY id DESC LIMIT 1: the newest row instead of the oldest
SelectNewest(table) ==
    IF table = {} THEN None
    ELSE CHOOSE r \in table : \A q \in table : r.id >= q.id

\* SELECT id, image_core_id, image_path, model, retry_count FROM jobs ORDER BY id LIMIT 1
SelectHead(table) ==
    IF table = {} THEN None
    ELSE CHOOSE r \in table : \A q \in table : r.id <= q.id

\* DELETE FROM jobs, without the WHERE clause
DeleteAllRows(table, id) == {}

\* DELETE FROM jobs WHERE id = ?
DeleteById(table, id) == {r \in table : r.id # id}

\* UPDATE jobs SET retry_count = retry_count + 1, without the WHERE clause
UpdateRetryCountAllRows(table, id) ==
    {[r EXCEPT !.retry_count = @ + 1] : r \in table}

\* an UPDATE that changes no row
UpdateRetryCountLost(table, id) == table

\* UPDATE jobs SET retry_count = retry_count + 1 WHERE id = ?
UpdateRetryCount(table, id) ==
    {IF r.id = id THEN [r EXCEPT !.retry_count = @ + 1] ELSE r : r \in table}

\* the value read before the UPDATE returned instead of the stored one
SelectRetryCountBefore(table, id) ==
    IF \E r \in table : r.id = id
    THEN (CHOOSE r \in table : r.id = id).retry_count - 1
    ELSE 0

\* SELECT retry_count FROM jobs WHERE id = ?; return result[0] if result else 0
SelectRetryCount(table, id) ==
    IF \E r \in table : r.id = id
    THEN (CHOOSE r \in table : r.id = id).retry_count
    ELSE 0

\* the key of a table without AUTOINCREMENT: one more than the largest key present
InsertIdMaxRowid(last) ==
    IF jobs = {} THEN 1
    ELSE (CHOOSE r \in jobs : \A q \in jobs : r.id >= q.id).id + 1

\* INSERT INTO jobs (image_core_id, image_path, model): the key is AUTOINCREMENT,
\* retry_count DEFAULT 0
InsertId(last) == last + 1

\* INSERT OR REPLACE on image_core_id: one row per correlation id
InsertOrReplace(table, last, image_core_id, image_path, model) ==
    {r \in table : r.image_core_id # image_core_id}
        \cup {Row(InsertId(last), image_core_id, image_path, model, 0)}

Insert(table, last, image_core_id, image_path, model) ==
    table \cup {Row(InsertId(last), image_core_id, image_path, model, 0)}

\* DELETE FROM jobs WHERE image_core_id = ?
DeleteByCoreId(table, image_core_id) ==
    {r \in table : r.image_core_id # image_core_id}

\* cursor.rowcount of a DELETE: the rows it removed
rowcount(before, after) == Cardinality(before) - Cardinality(after)

\* SELECT MAX(id) FROM jobs: the last key instead of the number of rows
check_queue_max_id ==
    IF jobs = {} THEN 0 ELSE (CHOOSE r \in jobs : \A q \in jobs : r.id >= q.id).id

\* SELECT COUNT(*) FROM jobs
check_queue == Cardinality(jobs)

(***************************************************************************)
(* The senders (senders.py).  Each wraps its request in try/except         *)
(* Exception and only logs how it ended.                                   *)
(***************************************************************************)
\* status_sender without the try/except around requests.post
status_sender_unguarded(outcome) ==
    IF outcome = "exception" THEN "raises" ELSE "returns"

\* status_sender: "returns" or "raises", given how its request ended
status_sender(outcome) == "returns"

\* description_sender without the try/except around requests.post
description_sender_unguarded(outcome) ==
    IF outcome = "exception" THEN "raises" ELSE "returns"

\* description_sender: "returns" or "raises", given how its request ended
description_sender(outcome) == "returns"

\* failure_sender: status_sender, then its own guarded request
failure_sender(outcomes) == "returns"

(***************************************************************************)
(* The extraction and the retry policy.                                    *)
(***************************************************************************)
\* What proccess_job can do: return a description or raise.
Results ==
    {[kind |-> "ok", text |-> t] : t \in Descriptions}
    \cup {[kind |-> "PermanentError", text |-> m] : m \in PermanentMessages}
    \cup {[kind |-> "TransientError", text |-> m] : m \in TransientMessages}
    \cup {[kind |-> "Exception", text |-> m] : m \in UnexpectedMessages}

\* an empty description taken for a failed extraction
HandlerEmptyIsFailure(res) ==
    IF res.kind = "ok" /\ res.text = "" THEN "TransientError"
    ELSE IF res.kind = "ok" THEN "none" ELSE res.kind

\* PermanentError handled by the clause of TransientError
HandlerRetriesPermanent(res) ==
    IF res.kind = "ok" THEN "none"
    ELSE IF res.kind = "PermanentError" THEN "TransientError" ELSE res.kind

\* The clause of the inner try statement that takes a result of proccess_job.
Handler(res) == IF res.kind = "ok" THEN "none" ELSE res.kind

\* delay_index = min(new_retry_count - 1, len(RETRY_DELAYS) - 1)
delay_index(n) == Min(n - 1, Len(RETRY_DELAYS) - 1)

\* the index taken modulo the length of the table instead of capped at its end
BackoffDelayWrapped(n) == RETRY_DELAYS[((n - 1) % Len(RETRY_DELAYS)) + 1]

\* sleep_time = RETRY_DELAYS[delay_index]
BackoffDelay(n) == PyIndex(RETRY_DELAYS, delay_index(n))

\* if new_retry_count > MAX_RETRY_ATTEMPTS
GiveUpLate(n) == n > MAX_RETRY_ATTEMPTS

\* if new_retry_count >= MAX_RETRY_ATTEMPTS (the clause of TransientError)
GiveUp(n) == n >= MAX_RETRY_ATTEMPTS

\* the clause of Exception giving up one attempt later than that of TransientError
GiveUpUnexpectedLate(n) == n > MAX_RETRY_ATTEMPTS

\* if new_retry_count >= MAX_RETRY_ATTEMPTS (the clause of Exception)
GiveUpUnexpected(n) == n >= MAX_RETRY_ATTEMPTS

\* delay_index and sleep_time of the clause of Exception
BackoffDelayUnexpected(n) ==
    PyIndex(RETRY_DELAYS, Min(n - 1, Len(RETRY_DELAYS) - 1))

\* the last error alone, without the note that the retries are used up
MaxRetriesMessageLastErrorOnly(msg) == msg

\* f"Max retries ({MAX_RETRY_ATTEMPTS}) exceeded. Last error: {e}"
MaxRetriesMessage(msg) == "Max retries (3) exceeded. Last error: " \o msg

\* failure_sender: status=5, then the description f"Error: {error_message}"
FailureEvents(image_core_id, msg) ==
    <<StatusEv(image_core_id, 5), DescriptionEv(image_core_id, "Error: " \o msg)>>

\* failure_sender giving up after a status request that did not succeed
FailureRequestsStopOnError(image_core_id, msg, outcomes) ==
    IF outcomes[1] = "200" THEN FailureEvents(image_core_id, msg)
    ELSE <<StatusEv(image_core_id, 5)>>

\* The requests failure_sender makes, given how each of them ends: the second
\* follows the first whatever the first did.
FailureRequests(image_core_id, msg, outcomes) == FailureEvents(image_core_id, msg)

\* if sleep_time > 5: no sleep on an empty queue
ShouldSleepOnBackoffOnly(j, t) == t > 5

\* time.sleep(sleep_time) at the end of every pass
ShouldSleepAlways(j, t) == TRUE

\* if not job or sleep_time > 5
ShouldSleep(j, t) == j = None \/ t > 5

(***************************************************************************)
(* init_db (job_queue.py) on a database file: whether table jobs is there, *)
(* whether it has column retry_count, and its rows.                        *)
(***************************************************************************)
\* retry_count of a row of a table that has no such column
NoColumn == -1

Database(table, column, rows) == [table |-> table, column |-> column, rows |-> rows]

\* CREATE TABLE IF NOT EXISTS jobs (..., retry_count INTEGER DEFAULT 0)
CreateTableIfNotExists(d) ==
    IF d.table THEN d ELSE Database(TRUE, TRUE, {})

\* ALTER TABLE jobs ADD COLUMN retry_count: what it raises
AlterTableError(d) == IF d.column THEN "OperationalError" ELSE "none"

\* ALTER TABLE jobs ADD COLUMN retry_count INTEGER DEFAULT 0: what it does when it
\* does not raise
AlterTableAddColumn(d) ==
    Database(d.table, TRUE, {[r EXCEPT !.retry_count = 0] : r \in d.rows})

\* init_db: the table as it leaves it
init_db(d) ==
    LET c == CreateTableIfNotExists(d) IN
    IF AlterTableError(c) = "none" THEN AlterTableAddColumn(c) ELSE c

\* the ALTER TABLE outside try/except
init_db_error_unguarded(d) == AlterTableError(CreateTableIfNotExists(d))

\* init_db: the exception it lets out; except sqlite3.OperationalError: pass
init_db_error(d) ==
    LET raised_by_alter == AlterTableError(CreateTableIfNotExists(d)) IN
    IF raised_by_alter = "OperationalError" THEN "none" ELSE raised_by_alter

\* The database files init_db is given: none yet, a table of before the
\* migration, a table with the column and rows at any retry_count.
OldRows == {Row(i, i, "a.jpg", "test", NoColumn) : i \in 1..2}

NewRows == {Row(i, i, "a.jpg", "test", n) : i \in 1..2, n \in 0..MAX_RETRY_ATTEMPTS}

Databases ==
    {Database(FALSE, FALSE, {})}
    \cup {Database(TRUE, FALSE, rows) : rows \in SUBSET OldRows}
    \cup {Database(TRUE, TRUE, rows) :
            rows \in {t \in SUBSET NewRows : \A r, q \in t : r.id = q.id => r = q}}

(***************************************************************************)
(* image_to_text (image_to_text_generator.py) on a file and a model: what  *)
(* the file is like and what the calls it makes do.                        *)
(***************************************************************************)
\* exists: os.path.exists; getsize: what os.path.getsize does; size: the value it
\* returns; open: what Image.open / verify do; download: what model_selector and
\* download do; extract: what current_model.extract does.
Inputs ==
    [ exists : BOOLEAN,
      getsize : {"ok", "OSError"},
      size : {0, MAX_IMAGE_SIZE_BYTES, MAX_IMAGE_SIZE_BYTES + 1},
      open : {"ok", "UnidentifiedImageError", "Exception"},
      download : {"ok", "Exception"},
      extract : {"ok", "MemoryError", "Exception"} ]

\* What a call did: kind "ok" or the class of the exception it raised, the value
\* returned or str(e), and whether the model had been asked for by then.
Outcome(kind, text, loaded) == [kind |-> kind, text |-> text, loaded |-> loaded]

\* validate_image with the checks of the image before the check of the size
validate_image_open_first(in) ==
    IF ~in.exists
    THEN Outcome("PermanentError", "Image file not found: a.jpg", FALSE)
    ELSE IF in.open = "UnidentifiedImageError"
    THEN Outcome("PermanentError", "Invalid or corrupt image file: a.jpg", FALSE)
    ELSE IF in.open = "Exception"
    THEN Outcome("PermanentError", "Cannot read image file: a.jpg - boom", FALSE)
    ELSE IF in.getsize = "OSError"
    THEN Outcome("Exception", "boom", FALSE)
    ELSE IF in.size > MAX_IMAGE_SIZE_BYTES
    THEN Outcome("PermanentError", "Image file too large", FALSE)
    ELSE Outcome("ok", "", FALSE)

\* validate_image: exists, then getsize and the limit, then Image.open / verify
validate_image(in) ==
    IF ~in.exists
    THEN Outcome("PermanentError", "Image file not found: a.jpg", FALSE)
    ELSE IF in.getsize = "OSError"
    THEN Outcome("Exception", "boom", FALSE)
    ELSE IF in.size > MAX_IMAGE_SIZE_BYTES
    THEN Outcome("PermanentError", "Image file too large", FALSE)
    ELSE IF in.open = "UnidentifiedImageError"
    THEN Outcome("PermanentError", "Invalid or corrupt image file: a.jpg", FALSE)
    ELSE IF in.open = "Exception"
    THEN Outcome("PermanentError", "Cannot read image file: a.jpg - boom", FALSE)
    ELSE Outcome("ok", "", FALSE)

\* download_model: any exception becomes TransientError
download_model(in) ==
    IF in.download = "ok"
    THEN Outcome("ok", "", TRUE)
    ELSE Outcome("TransientError", "Model download failed: timeout", TRUE)

\* image_to_text: validate_image, then download_model and extract inside the try
\* whose clauses re-raise PermanentError and TransientError and turn MemoryError
\* and any other exception into TransientError
image_to_text(in) ==
    IF validate_image(in).kind # "ok" THEN validate_image(in)
    ELSE IF download_model(in).kind # "ok" THEN download_model(in)
    ELSE CASE in.extract = "ok" -> Outcome("ok", "a meme", TRUE)
           [] in.extract = "MemoryError" ->
                Outcome("TransientError", "Out of memory processing image: boom", TRUE)
           [] OTHER ->
                Outcome("TransientError", "Image processing failed: boom", TRUE)

\* The functions applied on their own are not in play.
DelayOff ==
    /\ d_n = 0
    /\ d_delay = 0
    /\ d_phase = "off"

InitDbOff ==
    /\ db = Database(TRUE, TRUE, {})
    /\ db_applied = 0
    /\ db_error = "none"

ExtractOff ==
    /\ x_in = [exists |-> TRUE, getsize |-> "ok", size |-> 0, open |-> "ok",
               download |-> "ok", extract |-> "ok"]
    /\ x_out = Outcome("ok", "", FALSE)
    /\ x_phase = "off"

(***************************************************************************)
(* Initial state: init_db has created the table, the worker thread is at   *)
(* the top of its loop.                                                    *)
(***************************************************************************)
WorkerInit ==
    /\ pc = "start"
    /\ lock = FALSE
    /\ conn = FALSE
    /\ job = None
    /\ sleep_time = DEFAULT_SLEEP
    /\ new_retry_count = -1
    /\ caught = "none"
    /\ e = ""
    /\ description = ""
    /\ error_msg = ""
    /\ raised = "none"
    /\ events = <<>>
    /\ http = <<>>
    /\ crashed = None

\* No request served yet, nothing inserted, nothing deleted.
ApiInit ==
    /\ api = <<>>
    /\ enqueued = 0
    /\ deleted = 0

Init ==
    /\ jobs = {}
    /\ seq = 0
    /\ WorkerInit
    /\ ApiInit
    /\ faults = 0
    /\ DelayOff
    /\ InitDbOff
    /\ ExtractOff

(***************************************************************************)
(* The worker: process_jobs, one pass of `while True` at a time.           *)
(***************************************************************************)
\* What every step of the worker leaves alone besides the store.
WorkerFrame == UNCHANGED <<seq, api, enqueued, dvars>>

\* lines 56-58: conn = None, job = None, sleep_time = 5
Begin ==
    /\ pc = "start"
    /\ pc' = "connect"
    /\ conn' = FALSE
    /\ job' = None
    /\ sleep_time' = DEFAULT_SLEEP
    /\ new_retry_count' = -1
    /\ caught' = "none"
    /\ e' = ""
    /\ description' = ""
    /\ error_msg' = ""
    /\ raised' = "none"
    /\ events' = <<>>
    /\ http' = <<>>
    /\ UNCHANGED <<jobs, lock, faults>>
    /\ UNCHANGED <<deleted, crashed>>
    /\ WorkerFrame

\* the connection opened without entering `with lock`
ConnectWithoutLock ==
    /\ pc = "connect"
    /\ conn' = TRUE
    /\ pc' = "fetch"
    /\ UNCHANGED <<jobs, lock, job, sleep_time, new_retry_count, caught, e, description,
                   error_msg, raised, events, faults>>
    /\ http' = <<>>
    /\ UNCHANGED <<deleted, crashed>>
    /\ WorkerFrame

\* lines 61-63: with lock: conn = sqlite3.connect(JOB_DB); cursor = conn.cursor()
Connect ==
    /\ pc = "connect"
    /\ lock = FALSE
    /\ lock' = TRUE
    /\ conn' = TRUE
    /\ pc' = "fetch"
    /\ UNCHANGED <<jobs, job, sleep_time, new_retry_count, caught, e, description,
                   error_msg, raised, events, faults>>
    /\ http' = <<>>
    /\ UNCHANGED <<deleted, crashed>>
    /\ WorkerFrame

\* sqlite3.connect raises: the with block is left, the outer handler runs
ConnectError ==
    /\ pc = "connect"
    /\ lock = FALSE
    /\ faults < MaxFaults
    /\ faults' = faults + 1
    /\ raised' = "connect"
    /\ pc' = "except"
    /\ UNCHANGED <<jobs, lock, conn, job, sleep_time, new_retry_count, caught, e,
                   description, error_msg, events>>
    /\ http' = <<>>
    /\ UNCHANGED <<deleted, crashed>>
    /\ WorkerFrame

\* the head row taken out of the table when it is fetched (jobs.pop(0))
FetchAndDelete ==
    /\ pc = "fetch"
    /\ job' = SelectHead(jobs)
    /\ jobs' = DeleteById(jobs, job'.id)
    /\ deleted' = deleted + rowcount(jobs, jobs')
    /\ pc' = IF job' # None THEN "status_processing" ELSE "close"
    /\ UNCHANGED <<lock, conn, sleep_time, new_retry_count, caught, e,
                   description, error_msg, raised, events, faults>>
    /\ http' = <<>>
    /\ UNCHANGED crashed
    /\ WorkerFrame

\* lines 66-69: the SELECT of the head row, job = cursor.fetchone(), if job
Fetch ==
    /\ pc = "fetch"
    /\ job' = SelectHead(jobs)
    /\ pc' = IF job' # None THEN "status_processing" ELSE "close"
    /\ UNCHANGED <<jobs, lock, conn, sleep_time, new_retry_count, caught, e,
                   description, error_msg, raised, events, faults>>
    /\ http' = <<>>
    /\ UNCHANGED <<deleted, crashed>>
    /\ WorkerFrame

\* the SELECT raises
FetchError ==
    /\ pc = "fetch"
    /\ faults < MaxFaults
    /\ faults' = faults + 1
    /\ raised' = "fetch"
    /\ lock' = FALSE
    /\ pc' = "except"
    /\ UNCHANGED <<jobs, conn, job, sleep_time, new_retry_count, caught, e,
                   description, error_msg, events>>
    /\ http' = <<>>
    /\ UNCHANGED <<deleted, crashed>>
    /\ WorkerFrame

\* lines 71-85: status_sender({"image_core_id": ..., "status": 2})
StatusProcessing ==
    /\ pc = "status_processing"
    /\ events' = Append(events, StatusEv(job.image_core_id, 2))
    /\ \E outcome \in HttpOutcomes :
        /\ http' = <<outcome>>
        /\ IF status_sender(outcome) = "returns"
           THEN /\ pc' = "process"
                /\ UNCHANGED <<lock, raised>>
           ELSE \* raised in the with block: the outer handler takes it
                /\ pc' = "except"
                /\ lock' = FALSE
                /\ raised' = "sender"
    /\ crashed' = None
    /\ UNCHANGED <<jobs, conn, job, sleep_time, new_retry_count, caught, e,
                   description, error_msg, faults>>
    /\ UNCHANGED deleted
    /\ WorkerFrame

\* lines 87-89 and 105, 109, 126: proccess_job returns or raises
Process ==
    /\ pc = "process"
    /\ \E res \in Results :
        /\ caught' = Handler(res)
        /\ description' = IF caught' = "none" THEN res.text ELSE description
        /\ e' = IF caught' = "none" THEN e ELSE res.text
        /\ error_msg' = IF caught' = "PermanentError" THEN res.text ELSE error_msg
        /\ pc' = CASE caught' = "none" -> "send_description"
                   [] caught' = "PermanentError" -> "failure_sender"
                   [] OTHER -> "increment"
        /\ events' = Append(events, ExtractEv(job.id, res))
    /\ UNCHANGED <<jobs, lock, conn, job, sleep_time, new_retry_count, raised, faults>>
    /\ http' = <<>>
    /\ UNCHANGED <<deleted, crashed>>
    /\ WorkerFrame

\* a description that was not delivered handled as a failed extraction
SendDescriptionChecked ==
    /\ pc = "send_description"
    /\ events' = Append(events, DescriptionEv(job.image_core_id, description))
    /\ \E outcome \in HttpOutcomes :
        /\ http' = <<outcome>>
        /\ IF outcome = "200"
           THEN /\ pc' = "status_done"
                /\ UNCHANGED <<caught, e, raised>>
           ELSE /\ pc' = "increment"
                /\ caught' = "Exception"
                /\ e' = RequestErrorMessage
                /\ raised' = "sender"
    /\ UNCHANGED <<jobs, lock, conn, job, sleep_time, new_retry_count,
                   description, error_msg, faults>>
    /\ UNCHANGED <<deleted, crashed>>
    /\ WorkerFrame

\* line 92: description_sender(output_job_details, APP_URL)
SendDescription ==
    /\ pc = "send_description"
    /\ events' = Append(events, DescriptionEv(job.image_core_id, description))
    /\ \E outcome \in HttpOutcomes :
        /\ http' = <<outcome>>
        /\ IF description_sender(outcome) = "returns"
           THEN /\ pc' = "status_done"
                /\ UNCHANGED <<caught, e, raised>>
           ELSE \* raised in the inner try: `except Exception` (line 126) takes it
                /\ pc' = "increment"
                /\ caught' = "Exception"
                /\ e' = RequestErrorMessage
                /\ raised' = "sender"
    /\ UNCHANGED <<jobs, lock, conn, job, sleep_time, new_retry_count,
                   description, error_msg, faults>>
    /\ UNCHANGED <<deleted, crashed>>
    /\ WorkerFrame

\* the status=3 request sent before the description
StatusDoneFirst ==
    /\ pc = "status_done"
    /\ events' = <<events[1], events[2], StatusEv(job.image_core_id, 3), events[3]>>
    /\ http' \in {<<outcome>> : outcome \in HttpOutcomes}
    /\ pc' = "delete"
    /\ UNCHANGED <<jobs, lock, conn, job, sleep_time, new_retry_count, caught, e,
                   description, error_msg, raised, faults>>
    /\ UNCHANGED <<deleted, crashed>>
    /\ WorkerFrame

\* lines 95-96: status_job_details["status"] = 3; status_sender(...)
StatusDone ==
    /\ pc = "status_done"
    /\ events' = Append(events, StatusEv(job.image_core_id, 3))
    /\ \E outcome \in HttpOutcomes :
        /\ http' = <<outcome>>
        /\ IF status_sender(outcome) = "returns"
           THEN /\ pc' = "delete"
                /\ UNCHANGED <<caught, e, raised>>
           ELSE \* raised in the inner try: `except Exception` (line 126) takes it
                /\ pc' = "increment"
                /\ caught' = "Exception"
                /\ e' = RequestErrorMessage
                /\ raised' = "sender"
    /\ UNCHANGED <<jobs, lock, conn, job, sleep_time, new_retry_count,
                   description, error_msg, faults>>
    /\ UNCHANGED <<deleted, crashed>>
    /\ WorkerFrame

\* a DELETE that raises when it matches no row
DeleteStrict ==
    /\ pc = "delete"
    /\ jobs' = DeleteById(jobs, job.id)
    /\ deleted' = deleted + rowcount(jobs, jobs')
    /\ IF rowcount(jobs, jobs') = 0
       THEN /\ raised' = "delete"
            /\ caught' = "Exception"
            /\ e' = StoreErrorMessage
            /\ pc' = "increment"
            /\ events' = events
       ELSE /\ events' = Append(events, DeleteEv(job.id))
            /\ pc' = "close"
            /\ UNCHANGED <<raised, caught, e>>
    /\ UNCHANGED <<lock, conn, job, sleep_time, new_retry_count,
                   description, error_msg, faults>>
    /\ http' = <<>>
    /\ UNCHANGED crashed
    /\ WorkerFrame

\* lines 102-103: DELETE FROM jobs WHERE id = ?; conn.commit()
Delete ==
    /\ pc = "delete"
    /\ jobs' = DeleteById(jobs, job.id)
    /\ deleted' = deleted + rowcount(jobs, jobs')
    /\ events' = Append(events, DeleteEv(job.id))
    /\ pc' = "close"
    /\ UNCHANGED <<lock, conn, job, sleep_time, new_retry_count, caught, e,
                   description, error_msg, raised, faults>>
    /\ http' = <<>>
    /\ UNCHANGED crashed
    /\ WorkerFrame

\* the DELETE of line 102 raises inside the inner try: `except Exception` (line 126)
\* takes it
DeleteError ==
    /\ pc = "delete"
    /\ faults < MaxFaults
    /\ faults' = faults + 1
    /\ raised' = "delete"
    /\ caught' = "Exception"
    /\ e' = StoreErrorMessage
    /\ pc' = "increment"
    /\ UNCHANGED <<jobs, lock, conn, job, sleep_time, new_retry_count,
                   description, error_msg, events>>
    /\ http' = <<>>
    /\ UNCHANGED <<deleted, crashed>>
    /\ WorkerFrame

\* lines 111, 128 -> 46-47: the UPDATE of increment_retry_count; conn.commit()
IncrementUpdate ==
    /\ pc = "increment"
    /\ jobs' = UpdateRetryCount(jobs, job.id)
    /\ pc' = "increment_select"
    /\ UNCHANGED <<lock, conn, job, sleep_time, new_retry_count, caught, e,
                   description, error_msg, raised, events, faults>>
    /\ http' = <<>>
    /\ UNCHANGED <<deleted, crashed>>
    /\ WorkerFrame

\* the UPDATE raises inside an except clause: the outer handler takes it
IncrementError ==
    /\ pc = "increment"
    /\ faults < MaxFaults
    /\ faults' = faults + 1
    /\ raised' = "increment"
    /\ lock' = FALSE
    /\ pc' = "except"
    /\ UNCHANGED <<jobs, conn, job, sleep_time, new_retry_count, caught, e,
                   description, error_msg, events>>
    /\ http' = <<>>
    /\ UNCHANGED <<deleted, crashed>>
    /\ WorkerFrame

\* lines 48-50, then 113-124 / 130-139: the SELECT of increment_retry_count, its
\* return value, and the choice between giving up and retrying
IncrementSelect ==
    /\ pc = "increment_select"
    /\ new_retry_count' = SelectRetryCount(jobs, job.id)
    /\ events' = Append(events, IncrementEv(job.id, new_retry_count'))
    /\ IF (IF caught = "TransientError" THEN GiveUp(new_retry_count')
                                        ELSE GiveUpUnexpected(new_retry_count'))
       THEN /\ error_msg' = MaxRetriesMessage(e)
            /\ sleep_time' = sleep_time
            /\ pc' = "failure_sender"
       ELSE /\ sleep_time' = IF caught = "TransientError"
                             THEN BackoffDelay(new_retry_count')
                             ELSE BackoffDelayUnexpected(new_retry_count')
            /\ error_msg' = error_msg
            /\ pc' = "close"
    /\ UNCHANGED <<jobs, lock, conn, job, caught, e, description, raised, faults>>
    /\ http' = <<>>
    /\ UNCHANGED <<deleted, crashed>>
    /\ WorkerFrame

\* handle_job_failure deleting the row before it calls failure_sender
FailureSenderDeletesFirst ==
    /\ pc = "failure_sender"
    /\ jobs' = DeleteById(jobs, job.id)
    /\ deleted' = deleted + rowcount(jobs, jobs')
    /\ \E outcomes \in HttpOutcomes \X HttpOutcomes :
        /\ events' = Append(events, DeleteEv(job.id))
                        \o FailureRequests(job.image_core_id, error_msg, outcomes)
        /\ http' = outcomes
    /\ pc' = "close"
    /\ UNCHANGED <<lock, conn, job, sleep_time, new_retry_count, caught, e,
                   description, error_msg, raised, faults>>
    /\ UNCHANGED crashed
    /\ UNCHANGED <<seq, api, enqueued, dvars>>

\* lines 33-36: handle_job_failure calls failure_sender
FailureSender ==
    /\ pc = "failure_sender"
    /\ \E outcomes \in HttpOutcomes \X HttpOutcomes :
        /\ events' = events \o FailureRequests(job.image_core_id, error_msg, outcomes)
        /\ http' = SubSeq(outcomes, 1, Len(events') - Len(events))
        /\ IF failure_sender(outcomes) = "returns"
           THEN /\ pc' = "failure_delete"
                /\ UNCHANGED <<lock, raised>>
           ELSE \* raised in an except clause: the outer handler takes it
                /\ pc' = "except"
                /\ lock' = FALSE
                /\ raised' = "sender"
    /\ UNCHANGED <<jobs, conn, job, sleep_time, new_retry_count, caught, e,
                   description, error_msg, faults>>
    /\ UNCHANGED <<deleted, crashed>>
    /\ WorkerFrame

\* lines 39-40: handle_job_failure deletes the row; conn.commit()
FailureDelete ==
    /\ pc = "failure_delete"
    /\ jobs' = DeleteById(jobs, job.id)
    /\ deleted' = deleted + rowcount(jobs, jobs')
    /\ events' = Append(events, DeleteEv(job.id))
    /\ pc' = "close"
    /\ UNCHANGED <<lock, conn, job, sleep_time, new_retry_count, caught, e,
                   description, error_msg, raised, faults>>
    /\ http' = <<>>
    /\ UNCHANGED crashed
    /\ WorkerFrame

\* the DELETE of handle_job_failure raises inside an except clause: the outer
\* handler takes it
FailureDeleteError ==
    /\ pc = "failure_delete"
    /\ faults < MaxFaults
    /\ faults' = faults + 1
    /\ raised' = "failure_delete"
    /\ lock' = FALSE
    /\ pc' = "except"
    /\ UNCHANGED <<jobs, conn, job, sleep_time, new_retry_count, caught, e,
                   description, error_msg, events>>
    /\ http' = <<>>
    /\ UNCHANGED <<deleted, crashed>>
    /\ WorkerFrame

\* the connection closed and the lock kept: the sleep inside the with block
CloseConnectionOnly ==
    /\ pc = "close"
    /\ conn' = FALSE
    /\ pc' = "after_lock"
    /\ crashed' = None
    /\ UNCHANGED <<jobs, lock, job, sleep_time, new_retry_count, caught, e, description,
                   error_msg, raised, events, faults>>
    /\ http' = <<>>
    /\ UNCHANGED deleted
    /\ WorkerFrame

\* lines 145-148 and the end of the with block: conn.close(); conn = None; the lock
\* is released
Close ==
    /\ pc = "close"
    /\ conn' = FALSE
    /\ lock' = FALSE
    /\ pc' = "after_lock"
    /\ crashed' = None
    /\ UNCHANGED <<jobs, job, sleep_time, new_retry_count, caught, e, description,
                   error_msg, raised, events, faults>>
    /\ http' = <<>>
    /\ UNCHANGED deleted
    /\ WorkerFrame

\* lines 150-152: if not job or sleep_time > 5: time.sleep(sleep_time)
Sleep ==
    /\ pc = "after_lock"
    /\ IF ShouldSleep(job, sleep_time)
       THEN /\ events' = Append(events, SleepEv(sleep_time))
            /\ pc' = "sleeping"
       ELSE /\ events' = events
            /\ pc' = "start"
    /\ UNCHANGED <<jobs, lock, conn, job, sleep_time, new_retry_count, caught, e,
                   description, error_msg, raised, faults>>
    /\ http' = <<>>
    /\ UNCHANGED <<deleted, crashed>>
    /\ WorkerFrame

\* an outer handler that sleeps without closing the connection
ExceptKeepsConnection ==
    /\ pc = "except"
    /\ events' = Append(events, SleepEv(5))
    /\ pc' = "sleeping"
    /\ UNCHANGED <<jobs, lock, conn, job, sleep_time, new_retry_count, caught, e,
                   description, error_msg, raised, faults>>
    /\ http' = <<>>
    /\ UNCHANGED <<deleted, crashed>>
    /\ WorkerFrame

\* lines 154-163: except Exception: close the connection, time.sleep(5)
Except ==
    /\ pc = "except"
    /\ conn' = FALSE
    /\ events' = Append(events, SleepEv(5))
    /\ pc' = "sleeping"
    /\ UNCHANGED <<jobs, lock, job, sleep_time, new_retry_count, caught, e,
                   description, error_msg, raised, faults>>
    /\ http' = <<>>
    /\ UNCHANGED <<deleted, crashed>>
    /\ WorkerFrame

\* time.sleep returns: the next pass of the loop
Wake ==
    /\ pc = "sleeping"
    /\ pc' = "start"
    /\ UNCHANGED <<jobs, lock, conn, job, sleep_time, new_retry_count, caught, e,
                   description, error_msg, raised, events, faults>>
    /\ http' = <<>>
    /\ UNCHANGED <<deleted, crashed>>
    /\ WorkerFrame

\* a restart that puts every retry_count back to 0
CrashAndResetRetries ==
    /\ faults < MaxFaults
    /\ faults' = faults + 1
    /\ pc' = "start"
    /\ lock' = FALSE
    /\ conn' = FALSE
    /\ job' = None
    /\ sleep_time' = DEFAULT_SLEEP
    /\ new_retry_count' = -1
    /\ caught' = "none"
    /\ e' = ""
    /\ description' = ""
    /\ error_msg' = ""
    /\ raised' = "none"
    /\ events' = <<>>
    /\ http' = <<>>
    /\ crashed' = IF pc \in {"status_processing", "process"} THEN job ELSE crashed
    /\ jobs' = {[r EXCEPT !.retry_count = 0] : r \in jobs}
    /\ UNCHANGED <<seq, api, enqueued, deleted, dvars>>

\* The process dies and is started again: the table is on disk and stays, the
\* worker thread of the new process is at the top of its loop.
Crash ==
    /\ faults < MaxFaults
    /\ faults' = faults + 1
    /\ pc' = "start"
    /\ lock' = FALSE
    /\ conn' = FALSE
    /\ job' = None
    /\ sleep_time' = DEFAULT_SLEEP
    /\ new_retry_count' = -1
    /\ caught' = "none"
    /\ e' = ""
    /\ description' = ""
    /\ error_msg' = ""
    /\ raised' = "none"
    /\ events' = <<>>
    /\ http' = <<>>
    /\ crashed' = IF pc \in {"status_processing", "process"} THEN job ELSE crashed
    /\ UNCHANGED <<jobs, seq, api, enqueued, deleted, dvars>>

(***************************************************************************)
(* The HTTP layer (app.py): add_job, remove_job and check_queue.           *)
(***************************************************************************)
\* POST /add_job: insert the row, then status_sender(status=1)
add_job(image_core_id, image_path, model) ==
    /\ seq < MaxJobs
    /\ jobs' = Insert(jobs, seq, image_core_id, image_path, model)
    /\ seq' = InsertId(seq)
    /\ api' = <<StatusEv(image_core_id, 1)>>
    /\ enqueued' = enqueued + 1
    /\ UNCHANGED <<wvars, faults, deleted, dvars>>

\* a removal that reports not_started whether or not a row was there
remove_job_not_started(image_core_id) ==
    /\ jobs' = DeleteByCoreId(jobs, image_core_id)
    /\ api' = <<StatusEv(image_core_id, 0)>>
    /\ deleted' = deleted + rowcount(jobs, jobs')
    /\ UNCHANGED <<seq, wvars, faults, enqueued, dvars>>

\* DELETE /remove_job/{image_core_id}: status 0 if a row was there, 3 if not
remove_job(image_core_id) ==
    /\ jobs' = DeleteByCoreId(jobs, image_core_id)
    /\ api' = IF \E r \in jobs : r.image_core_id = image_core_id
              THEN <<StatusEv(image_core_id, 0)>>
              ELSE <<StatusEv(image_core_id, 3)>>
    /\ deleted' = deleted + rowcount(jobs, jobs')
    /\ UNCHANGED <<seq, wvars, faults, enqueued, dvars>>

\* GET /check_queue: {"queue_length": check_queue()}
CheckQueue ==
    /\ api' = <<QueueLengthEv(check_queue)>>
    /\ UNCHANGED <<jobs, seq, wvars, faults, enqueued, deleted, dvars>>

AddJob == \E c \in CoreIds, p \in ImagePaths, m \in Models : add_job(c, p, m)

RemoveJob == \E c \in CoreIds : remove_job(c)

Next ==
    \/ Begin \/ Connect \/ ConnectError \/ Fetch \/ FetchError
    \/ StatusProcessing \/ Process \/ SendDescription \/ StatusDone
    \/ Delete \/ DeleteError \/ IncrementUpdate \/ IncrementError
    \/ IncrementSelect \/ FailureSender \/ FailureDelete \/ FailureDeleteError
    \/ Close \/ Sleep \/ Except \/ Wake \/ Crash
    \/ AddJob \/ RemoveJob \/ CheckQueue

Spec == Init /\ [][Next]_vars

(***************************************************************************)
(* The loop with a store that raises nothing and a process that stays up:  *)
(* the worker thread keeps running (weak fairness of its steps), requests  *)
(* come when they come.                                                    *)
(***************************************************************************)
\* A step of process_jobs in which no store statement raises.
Worker ==
    \/ Begin \/ Connect \/ Fetch
    \/ StatusProcessing \/ Process \/ SendDescription \/ StatusDone
    \/ Delete \/ IncrementUpdate \/ IncrementSelect
    \/ FailureSender \/ FailureDelete
    \/ Close \/ Sleep \/ Wake

LiveNext == Worker \/ AddJob \/ RemoveJob \/ CheckQueue

LiveSpec == Init /\ [][LiveNext]_vars /\ WF_vars(Worker)

(***************************************************************************)
(* The backoff computation of lines 119-120 on its own, applied to every   *)
(* attempt number up to MaxAttempt.                                        *)
(***************************************************************************)
DelayInit ==
    /\ jobs = {}
    /\ seq = 0
    /\ WorkerInit
    /\ ApiInit
    /\ faults = 0
    /\ d_n \in 0..MaxAttempt
    /\ d_delay = 0
    /\ d_phase = "in"
    /\ InitDbOff
    /\ ExtractOff

ComputeDelay ==
    /\ d_phase = "in"
    /\ d_delay' = BackoffDelay(d_n)
    /\ d_phase' = "out"
    /\ UNCHANGED <<jobs, seq, wvars, api, enqueued, deleted, faults, d_n>>
    /\ UNCHANGED <<ivars, xvars>>

DelayNext == ComputeDelay

DelaySpec == DelayInit /\ [][DelayNext]_vars

(***************************************************************************)
(* init_db on its own, applied up to MaxInit times to every database of    *)
(* Databases.                                                              *)
(***************************************************************************)
InitDbInit ==
    /\ jobs = {}
    /\ seq = 0
    /\ WorkerInit
    /\ ApiInit
    /\ faults = 0
    /\ DelayOff
    /\ ExtractOff
    /\ db \in Databases
    /\ db_applied = 0
    /\ db_error = "none"

InitDb ==
    /\ db_applied < MaxInit
    /\ db' = init_db(db)
    /\ db_error' = init_db_error(db)
    /\ db_applied' = db_applied + 1
    /\ UNCHANGED <<jobs, seq, wvars, api, enqueued, deleted, faults>>
    /\ UNCHANGED <<d_n, d_delay, d_phase, xvars>>

InitDbNext == InitDb

InitDbSpec == InitDbInit /\ [][InitDbNext]_vars

(***************************************************************************)
(* image_to_text on its own, applied to every input of Inputs.             *)
(***************************************************************************)
ExtractInit ==
    /\ jobs = {}
    /\ seq = 0
    /\ WorkerInit
    /\ ApiInit
    /\ faults = 0
    /\ DelayOff
    /\ InitDbOff
    /\ x_in \in Inputs
    /\ x_out = Outcome("ok", "", FALSE)
    /\ x_phase = "in"

ImageToText ==
    /\ x_phase = "in"
    /\ x_out' = image_to_text(x_in)
    /\ x_phase' = "out"
    /\ UNCHANGED <<jobs, seq, wvars, api, enqueued, deleted, faults, x_in>>
    /\ UNCHANGED <<d_n, d_delay, d_phase, ivars>>

ExtractNext == ImageToText

ExtractSpec == ExtractInit /\ [][ExtractNext]_vars

(***************************************************************************)
(* Properties.                                                             *)
(***************************************************************************)
\* The worker has a job in hand: from the fetch to the end of the with block.
Working ==
    /\ job # None
    /\ pc \in {"status_processing", "process", "send_description", "status_done",
               "delete", "increment", "increment_select", "failure_sender",
               "failure_delete", "close"}

HasRow(id) == \E r \in jobs : r.id = id

Kinds(evs, k) == {i \in 1..Len(evs) : evs[i].kind = k}

\* a status=5 message or an "Error: ..." description among the events
FailureSent(evs) ==
    \E i \in 1..Len(evs) :
        \/ evs[i].kind = "status" /\ evs[i].num = 5
        \/ /\ evs[i].kind = "description"
           /\ \E m \in PermanentMessages \cup TransientMessages
                        \cup UnexpectedMessages \cup {StoreErrorMessage} :
                  evs[i].text \in {"Error: " \o m, "Error: " \o MaxRetriesMessage(m)}

\* the event of the extraction of this cycle
Extracted == IF Len(events) >= 2 THEN events[2] ELSE SleepEv(0)

C1_NoSmaller == Working => \A r \in jobs : job.id <= r.id

C1_RetriedIsHead ==
    \A r \in jobs : r.retry_count > 0 => \A q \in jobs : r.id <= q.id

C1_FetchMin ==
    (pc = "fetch" /\ pc' = "status_processing") =>
        /\ job' \in jobs
        /\ \A r \in jobs : job'.id <= r.id

\* C1: the job a cycle fetches is the row with the smallest id in the store; while
\* the worker has a job in hand no row with a smaller id is present; and a row that
\* has been retried is the head of the queue, ahead of every row enqueued after it.
C1_DequeueOrder == [](C1_NoSmaller /\ C1_RetriedIsHead) /\ [][C1_FetchMin]_vars

\* a retried job is handed to extraction again while a later job waits behind it
C1_Witness ==
    /\ pc = "process"
    /\ job.retry_count > 0
    /\ \E r \in jobs : r.id > job.id

\* C2: a TransientError on a job with stored retry_count k in 0..2 makes the count
\* k+1, hence 1, 2, 3 over consecutive failures; at 1 and 2 the cycle sends no
\* failure notification and deletes nothing; at 3 (= MAX_RETRY_ATTEMPTS) the same
\* cycle sends the failure notification and deletes the row.
C2_RetrySequence ==
    ( /\ pc = "close"
      /\ job # None
      /\ Extracted.res = "TransientError"
      /\ job.retry_count < MAX_RETRY_ATTEMPTS
      /\ new_retry_count > 0 ) =>
        /\ new_retry_count = job.retry_count + 1
        /\ new_retry_count < MAX_RETRY_ATTEMPTS =>
             /\ ~FailureSent(events)
             /\ Kinds(events, "delete") = {}
             /\ Len(events) = 3
        /\ new_retry_count = MAX_RETRY_ATTEMPTS =>
             /\ Len(events) = 6
             /\ <<events[4], events[5]>> =
                    FailureEvents(job.image_core_id, MaxRetriesMessage(Extracted.text))
             /\ events[6] = DeleteEv(job.id)
             /\ ~HasRow(job.id)

\* the third consecutive transient failure: failure sent, row deleted
C2_Witness ==
    /\ pc = "close"
    /\ Extracted.res = "TransientError"
    /\ job.retry_count = 2
    /\ new_retry_count = 3
    /\ ~HasRow(job.id)
    /\ faults = 0

C3_Increment ==
    ( /\ pc = "increment"
      /\ pc' = "increment_select"
      /\ Extracted.res = "TransientError"
      /\ HasRow(job.id)
      /\ job.retry_count + 1 < MAX_RETRY_ATTEMPTS ) =>
        /\ [job EXCEPT !.retry_count = @ + 1] \in jobs'
        /\ jobs' \ {[job EXCEPT !.retry_count = @ + 1]} = jobs \ {job}

C3_NoFailure ==
    ( /\ pc \in {"increment_select", "close", "after_lock"}
      /\ pc' # pc
      /\ Extracted.res = "TransientError"
      /\ new_retry_count' > 0
      /\ new_retry_count' < MAX_RETRY_ATTEMPTS ) =>
        /\ new_retry_count' = job.retry_count + 1
        /\ jobs' = jobs
        /\ ~FailureSent(events')
        /\ Kinds(events', "delete") = {}
        /\ pc' \notin {"failure_sender", "failure_delete"}

\* C3: a TransientError whose incremented count stays below MAX_RETRY_ATTEMPTS adds
\* exactly 1 to the row's retry_count and changes no other row; the rest of the
\* cycle sends no failure notification, issues no delete and leaves the table as
\* it is, the job's row included.
C3_TransientBelowLimit == [][C3_Increment /\ C3_NoFailure]_vars

\* the cycle of a first transient failure has released the lock; the row is there
C3_Witness ==
    /\ pc = "after_lock"
    /\ Extracted.res = "TransientError"
    /\ new_retry_count = 1
    /\ [job EXCEPT !.retry_count = 1] \in jobs

\* C4: a PermanentError on a job with retry_count = 0: the cycle sends exactly one
\* failure notification (status=5, then "Error: " + message) for its
\* image_core_id, increments nothing and deletes the row; no row with that id
\* exists afterwards and the id is not assigned again.
C4_PermanentFailure ==
    ( /\ pc = "close"
      /\ job # None
      /\ Extracted.res = "PermanentError"
      /\ job.retry_count = 0 ) =>
        /\ events = <<StatusEv(job.image_core_id, 2), Extracted>>
                    \o <<StatusEv(job.image_core_id, 5),
                         DescriptionEv(job.image_core_id, "Error: " \o Extracted.text)>>
                    \o <<DeleteEv(job.id)>>
        /\ new_retry_count = -1
        /\ ~HasRow(job.id)
        /\ job.id <= seq

C4_Witness ==
    /\ pc = "close"
    /\ Extracted.res = "PermanentError"
    /\ job.retry_count = 0
    /\ Kinds(events, "delete") # {}

\* C5: the cycle of a job whose extraction succeeds does, in this order: status=2,
\* the extraction, the description with the extracted text, status=3, the delete
\* of the row; and nothing else, so no failure notification.
C5_SuccessOrder ==
    ( /\ pc = "close"
      /\ job # None
      /\ Extracted.res = "ok"
      /\ raised = "none" ) =>
        events = <<StatusEv(job.image_core_id, 2),
                   ExtractEv(job.id, [kind |-> "ok", text |-> description]),
                   DescriptionEv(job.image_core_id, Extracted.text),
                   StatusEv(job.image_core_id, 3),
                   DeleteEv(job.id)>>

C5_Witness ==
    /\ pc = "close"
    /\ Extracted.res = "ok"
    /\ Extracted.text = "a meme"
    /\ Len(events) = 5

\* C6: after a transient or unclassified failure that leaves new_retry_count below
\* MAX_RETRY_ATTEMPTS the worker, the lock released, sleeps
\* RETRY_DELAYS[min(new_retry_count - 1, len(RETRY_DELAYS) - 1)] before its next
\* cycle: 5 after the first failure of a job, 10 after the second.
C6_BackoffSleep ==
    ( /\ pc \in {"sleeping", "start"}
      /\ Extracted.kind = "extract"
      /\ Extracted.res \in {"TransientError", "Exception"}
      /\ new_retry_count \in 1..(MAX_RETRY_ATTEMPTS - 1) ) =>
        /\ lock = FALSE
        /\ events[Len(events)] =
               SleepEv(RETRY_DELAYS[Min(new_retry_count - 1, Len(RETRY_DELAYS) - 1) + 1])

\* C7: for every attempt number n >= 1 the delay is
\* RETRY_DELAYS[min(n - 1, len(RETRY_DELAYS) - 1)]: 5 for n = 1, 10 for n = 2, 20
\* for n = 3 and for every n > 3.
C7_DelayTable ==
    (d_phase = "out" /\ d_n >= 1) =>
        /\ d_delay = RETRY_DELAYS[Min(d_n - 1, Len(RETRY_DELAYS) - 1) + 1]
        /\ d_delay = (IF d_n = 1 THEN 5 ELSE IF d_n = 2 THEN 10 ELSE 20)

\* the delay of an attempt beyond the table
C7_Witness == d_phase = "out" /\ d_n = 4 /\ d_delay = 20

\* C8: an extraction that returns "" is a success: the cycle sends the description
\* "", then status=3, then deletes the row; it increments no retry_count and sends
\* no failure notification.
C8_EmptyDescription ==
    ( /\ Extracted.kind = "extract"
      /\ Extracted.res = "ok"
      /\ Extracted.text = ""
      /\ raised = "none" ) =>
        /\ caught = "none"
        /\ new_retry_count = -1
        /\ Kinds(events, "increment") = {}
        /\ ~FailureSent(events)
        /\ \A r \in jobs : r.id = job.id => r = job
        /\ pc \in {"send_description", "status_done", "delete", "close",
                   "after_lock", "start"}
        /\ pc # "send_description" => events[3] = DescriptionEv(job.image_core_id, "")
        /\ pc \notin {"send_description", "status_done"} =>
               events[4] = StatusEv(job.image_core_id, 3)
        /\ pc \in {"close", "after_lock", "start"} =>
               /\ Len(events) = 5
               /\ events[5] = DeleteEv(job.id)
               /\ ~HasRow(job.id)

C8_Witness ==
    /\ pc = "close"
    /\ Extracted.res = "ok"
    /\ Extracted.text = ""
    /\ events[3] = DescriptionEv(job.image_core_id, "")
    /\ events[5] = DeleteEv(job.id)

\* C9: every row of the store has 0 <= retry_count <= MAX_RETRY_ATTEMPTS, after any
\* sequence of enqueues, cycles, removals, store errors and crashes with restart.
C9_RetryCountBound ==
    \A r \in jobs : 0 <= r.retry_count /\ r.retry_count <= MAX_RETRY_ATTEMPTS

\* C10: a cycle in which a store statement raised ends with the lock released, the
\* connection closed and a sleep of 5 seconds before the next cycle; when it was
\* the connect that raised, the cycle changed no row.
C10_CycleException ==
    (raised # "none" /\ pc \in {"sleeping", "start"}) =>
        /\ lock = FALSE
        /\ conn = FALSE
        /\ events # <<>>
        /\ events[Len(events)] = SleepEv(5)
        /\ raised = "connect" => Kinds(events, "increment") \cup Kinds(events, "delete") = {}


(***************************************************************************)
(* Crashes, counts, removals, senders, the lock.                           *)
(***************************************************************************)
\* A step of the worker or of the process it runs in (not of the HTTP layer).
WorkerStep == wvars' # wvars \/ faults' # faults

\* The outcome of the job in hand has been sent: status 3 or the failure pair.
Recorded ==
    \/ \E i \in 1..Len(events) : events[i] = StatusEv(job.image_core_id, 3)
    \/ FailureSent(events)

\* C11 (1): the worker removes a row only in a step that follows the sending of
\* the job's outcome, and the row it removes is that of the job in hand.
C11_RemovalAfterRecord ==
    (WorkerStep /\ jobs' # jobs /\ Cardinality(jobs') < Cardinality(jobs)) =>
        /\ Recorded
        /\ jobs' = DeleteById(jobs, job.id)

\* C11 (2): from the dequeue to the end of the extraction no step of the worker,
\* and no crash, changes the table: the row in hand keeps its place and its
\* retry_count.
C11_CrashKeepsRow ==
    (WorkerStep /\ pc \in {"fetch", "status_processing", "process"}) =>
        /\ jobs' = jobs
        /\ (pc # "fetch" /\ pc' = "start") => crashed' = job

\* C11 (3): the first fetch after such a crash picks the same row again, if no
\* removal request has deleted it meanwhile.
C11_Repicked ==
    (pc = "fetch" /\ pc' = "status_processing" /\ crashed \in jobs) => job' = crashed

\* C11: the worker never removes a job's row before the job's success or failure
\* has been sent; a crash between dequeue and the end of extraction leaves the row
\* in the store with an unchanged retry_count, and after restart the same job is
\* the next one picked.
C11_AtLeastOnce ==
    [][C11_RemovalAfterRecord /\ C11_CrashKeepsRow /\ C11_Repicked]_vars

\* the process died mid-extraction, restarted, and has the same row in hand again
C11_Witness ==
    /\ pc = "status_processing"
    /\ crashed # None
    /\ job = crashed
    /\ job \in jobs

\* C12 (1): the count is the rows inserted less the rows deleted, is not negative,
\* and counts one row per key.
C12_Count ==
    /\ check_queue = enqueued - deleted
    /\ check_queue >= 0
    /\ check_queue = Cardinality({r.id : r \in jobs})

\* C12 (2): what GET /check_queue answers is that count, whatever the worker is
\* doing.
C12_Reported ==
    (api' # api /\ api'[1].kind = "queue_length") =>
        /\ api'[1].num = enqueued - deleted
        /\ jobs' = jobs

\* C12: after any sequence of enqueue, removal and worker operations, also while
\* an extraction is in flight, check_queue reports the number of rows present,
\* which is the number of jobs enqueued minus the number deleted, is never
\* negative and counts no job twice.
C12_QueueCount == []C12_Count /\ [][C12_Reported]_vars

\* the count read while an extraction is in flight, after three enqueues and two
\* deletions
C12_Witness ==
    /\ pc = "process"
    /\ api = <<QueueLengthEv(1)>>
    /\ check_queue = 1
    /\ enqueued = 3
    /\ deleted = 2

\* C13 (1): a removal request deletes the rows of its correlation id and emits one
\* notification: status 0 if there was such a row, status 3 if there was none.
C13_Removal ==
    ( /\ ~WorkerStep
      /\ seq' = seq
      /\ Len(api') = 1
      /\ api'[1].kind = "status" ) =>
        LET c == api'[1].who IN
        /\ jobs' = {r \in jobs : r.image_core_id # c}
        /\ api' = <<StatusEv(c, IF \E r \in jobs : r.image_core_id = c THEN 0 ELSE 3)>>
        /\ \A r \in jobs' : r.image_core_id # c

\* C13 (2): a removal of the id whose removal has just emitted status 0 emits
\* status 3.
C13_Twice ==
    ( /\ ~WorkerStep
      /\ seq' = seq
      /\ Len(api) = 1 /\ api[1].kind = "status" /\ api[1].num = 0
      /\ Len(api') = 1 /\ api'[1].kind = "status" /\ api'[1].who = api[1].who ) =>
        api' = <<StatusEv(api[1].who, 3)>>

\* C13: a removal request for a correlation id that has a row deletes it and emits
\* exactly one status=0 notification; for an id with no row it succeeds and emits
\* exactly one status=3 notification; removing the same id twice emits status 0,
\* then status 3.
C13_RemoveJob == [][C13_Removal /\ C13_Twice]_vars

\* the only row ever inserted was removed while the worker had it in hand for the
\* first time, and the same id has been removed once more since: status 3
C13_Witness ==
    /\ seq = 1
    /\ deleted = 1
    /\ faults = 0
    /\ pc = "process"
    /\ job.id = 1
    /\ job.retry_count = 0
    /\ api = <<StatusEv(job.image_core_id, 3)>>

\* The statement after each sender call of the worker's success path.
AfterSender(at) ==
    CASE at = "status_processing" -> "process"
      [] at = "send_description" -> "status_done"
      [] at = "status_done" -> "delete"

\* C14: a call of status_sender or description_sender makes exactly one request
\* and returns normally however the request ends (status 200, another status
\* code, an exception): nothing is raised, nothing is sent again, the worker is at
\* its next statement.
C14_SenderReturns ==
    [][ ( /\ pc \in {"status_processing", "send_description", "status_done"}
          /\ pc' # pc
          /\ faults' = faults ) =>
            /\ Len(http') = 1
            /\ Len(events') = Len(events) + 1
            /\ events'[Len(events')].kind \in {"status", "description"}
            /\ pc' = AfterSender(pc)
            /\ raised' = raised
            /\ caught' = caught
            /\ lock' = lock
            /\ jobs' = jobs ]_vars

\* the request of description_sender raised, the worker is at the statement after
\* the call with nothing caught
C14_Witness ==
    /\ pc = "status_done"
    /\ http = <<"exception">>
    /\ caught = "none"
    /\ raised = "none"
    /\ events[Len(events)] = DescriptionEv(job.image_core_id, description)

\* C15: failure_sender sends one status=5 message and then one description
\* message "Error: " + the failure message, both for the correlation id of the job
\* in hand; the description is sent also when the status request did not succeed,
\* and nothing is raised: the worker goes on to delete the row.
C15_FailureNotification ==
    [][ ( /\ pc = "failure_sender"
          /\ pc' # pc
          /\ faults' = faults ) =>
            /\ events' = events \o
                 << StatusEv(job.image_core_id, 5),
                    DescriptionEv(job.image_core_id, "Error: " \o error_msg) >>
            /\ Len(http') = 2
            /\ pc' = "failure_delete"
            /\ raised' = raised
            /\ lock' = lock ]_vars

\* the status=5 request raised and the description request was made all the same
C15_Witness ==
    /\ pc = "failure_delete"
    /\ http[1] = "exception"
    /\ Len(http) = 2
    /\ Len(events) >= 2
    /\ events[Len(events) - 1] = StatusEv(job.image_core_id, 5)
    /\ events[Len(events)] = DescriptionEv(job.image_core_id, "Error: " \o error_msg)
    /\ raised = "none"

\* C16: an exception of the extraction that is neither PermanentError nor
\* TransientError is handled as a TransientError is: for both, the cycle
\* increments the retry_count of the row in hand once, gives up by the test of the
\* TransientError clause (failure notification with the "Max retries" text, row
\* deleted), otherwise sets the delay of the TransientError clause and sends
\* nothing more, and reaches the end of the with block, from where the loop goes
\* on.
C16_UnexpectedAsTransient ==
    ( /\ pc = "close"
      /\ job # None
      /\ Extracted.res \in {"TransientError", "Exception"}
      /\ raised = "none" ) =>
        LET n == new_retry_count IN
        /\ caught = Extracted.res
        /\ events[3] = IncrementEv(job.id, n)
        /\ Kinds(events, "increment") = {3}
        /\ n \in {0, job.retry_count + 1}
        /\ IF GiveUp(n)
           THEN /\ Len(events) = 6
                /\ SubSeq(events, 4, 5) =
                     FailureEvents(job.image_core_id, MaxRetriesMessage(Extracted.text))
                /\ events[6] = DeleteEv(job.id)
                /\ ~HasRow(job.id)
                /\ sleep_time = DEFAULT_SLEEP
           ELSE /\ Len(events) = 3
                /\ sleep_time = BackoffDelay(n)

\* an unexpected exception on a row at retry_count 2: given up, failure sent, row
\* deleted
C16_Witness ==
    /\ pc = "close"
    /\ Extracted.res = "Exception"
    /\ raised = "none"
    /\ job.retry_count = 2
    /\ new_retry_count = MAX_RETRY_ATTEMPTS
    /\ Len(events) = 6
    /\ ~HasRow(job.id)

\* C17: whenever the worker sleeps (idle sleep, backoff sleep, or the 5 s sleep
\* of the outer handler) the lock is not held; it is released on every way out
\* of the with block, by an exception too: outside the block (before the sleep
\* test, in the outer handler, asleep, at the top of the loop) it is free.
C17_SleepWithoutLock ==
    pc \in {"after_lock", "except", "sleeping", "start", "connect"} => lock = FALSE

\* asleep in the outer handler after the fetch raised with a connection open
C17_Witness ==
    /\ pc = "sleeping"
    /\ raised = "fetch"
    /\ events[Len(events)] = SleepEv(5)
    /\ lock = FALSE

\* The statements inside `with lock`.
InsideLock ==
    pc \in {"fetch", "status_processing", "process", "send_description",
            "status_done", "delete", "increment", "increment_select",
            "failure_sender", "failure_delete", "close"}

\* C18: the extraction runs only with the lock held, and one at a time: the lock
\* is held at every statement from the fetch through the DELETE or the
\* retry_count UPDATE of the cycle, and a cycle extracts at most once, for the row
\* it fetched.
C18_ExtractionUnderLock ==
    /\ InsideLock => lock = TRUE
    /\ Cardinality(Kinds(events, "extract")) <= 1
    /\ Kinds(events, "extract") # {} =>
          /\ Kinds(events, "extract") = {2}
          /\ events[2].who = job.id

\* the retry_count UPDATE of a failed extraction is done and the lock is still held
C18_Witness ==
    /\ pc = "close"
    /\ lock = TRUE
    /\ Len(events) = 3
    /\ events[2].kind = "extract"
    /\ events[3].kind = "increment"

\* C19: the DELETE of a row that is no longer there (a removal request deleted
\* it while the worker had it in hand) is not an error: the worker's DELETE, on
\* the success path and in handle_job_failure, raises nothing, leaves every other
\* row as it is, and the worker goes on to the end of the cycle.
C19_DeleteAbsentRow ==
    [][ ( /\ pc \in {"delete", "failure_delete"}
          /\ ~HasRow(job.id)
          /\ pc' # pc
          /\ faults' = faults ) =>
            /\ jobs' = jobs
            /\ deleted' = deleted
            /\ events' = Append(events, DeleteEv(job.id))
            /\ raised' = raised
            /\ caught' = caught
            /\ pc' = "close" ]_vars

\* the only row ever inserted was removed by a request while its extraction was in
\* flight; the extraction succeeded and the worker's DELETE has run on no row
C19_Witness ==
    /\ pc = "close"
    /\ seq = 1
    /\ deleted = 1
    /\ api = <<StatusEv(job.image_core_id, 0)>>
    /\ Extracted.res = "ok"
    /\ events[Len(events)] = DeleteEv(job.id)
    /\ raised = "none"
    /\ faults = 0

\* C20: only a failed extraction counts against the retry budget: a step changes
\* the retry_count of a row only in a cycle whose extraction raised TransientError
\* or an unexpected exception and in which no store statement or sender raised.
C20_OnlyExtractionCounts ==
    [][ (\E r \in jobs, q \in jobs' : r.id = q.id /\ r.retry_count # q.retry_count) =>
            /\ Extracted.res \in {"TransientError", "Exception"}
            /\ raised = "none" ]_vars

(***************************************************************************)
(* The store operations and the extraction boundary.                       *)
(***************************************************************************)
\* The row of table that has key id.
RowOf(table, id) == CHOOSE r \in table : r.id = id

\* C21 (1): the UPDATE of increment_retry_count adds 1 to the retry_count of the
\* row in hand and leaves every other row, and every other column, as it is.
C21_Update ==
    (pc = "increment" /\ pc' = "increment_select") =>
        /\ Cardinality(jobs') = Cardinality(jobs)
        /\ \A r \in jobs :
             [r EXCEPT !.retry_count = IF r.id = job.id THEN @ + 1 ELSE @] \in jobs'

\* C21 (2): it returns the stored value, which is the old value plus one, and the
\* read changes nothing.
C21_Return ==
    ( /\ pc = "increment_select"
      /\ pc' # pc
      /\ faults' = faults
      /\ HasRow(job.id) ) =>
        /\ new_retry_count' = RowOf(jobs, job.id).retry_count
        /\ new_retry_count' = job.retry_count + 1
        /\ jobs' = jobs

\* C21 (3): a cycle calls it at most once, and a cycle whose extraction raised
\* TransientError or an unexpected exception has called it once when it ends.
C21_Once ==
    /\ Cardinality(Kinds(events, "increment")) <= 1
    /\ ( /\ pc = "close"
         /\ job # None
         /\ Extracted.res \in {"TransientError", "Exception"} ) =>
            Kinds(events, "increment") = {3}

\* C21: increment_retry_count adds exactly 1 to the stored retry_count of the job,
\* commits, and returns the new stored value (old value + 1); it is called once
\* per failed attempt that counts as a retry and changes no other row.
C21_IncrementRetryCount == []C21_Once /\ [][C21_Update /\ C21_Return]_vars

\* second failure of the head row with another row behind it: the head row went
\* from 1 to 2, 2 was returned, the other row is still at 0
C21_Witness ==
    /\ pc = "close"
    /\ job.retry_count = 1
    /\ events[3] = IncrementEv(job.id, 2)
    /\ \E r \in jobs : r.id = job.id /\ r.retry_count = 2
    /\ \E r \in jobs : r.id # job.id /\ r.retry_count = 0

\* What the cycle did that can be seen from outside: the requests it sent and the
\* rows it deleted.
IsVisible(ev) == ev.kind \in {"status", "description", "delete"}

Visible(evs) == SelectSeq(evs, IsVisible)

\* The events of a job given up, with msg as the failure message.
GivenUpEvents(msg) ==
    << StatusEv(job.image_core_id, 2),
       StatusEv(job.image_core_id, 5),
       DescriptionEv(job.image_core_id, "Error: " \o msg),
       DeleteEv(job.id) >>

\* C22: a job whose retries are used up is given up with the same visible events
\* as a job that fails permanently at once: one status=5 message, one "Error: ..."
\* description, then the deletion of its row; only the text differs, which for
\* used-up retries says that the maximum of 3 retries was exceeded and what the
\* last error was.
C22_ExhaustedLikePermanent ==
    ( /\ pc = "close"
      /\ job # None
      /\ raised = "none" ) =>
        /\ Extracted.res = "PermanentError" =>
             /\ Visible(events) = GivenUpEvents(Extracted.text)
             /\ ~HasRow(job.id)
        /\ ( /\ Extracted.res \in {"TransientError", "Exception"}
             /\ new_retry_count >= MAX_RETRY_ATTEMPTS ) =>
             /\ Visible(events) =
                  GivenUpEvents("Max retries (3) exceeded. Last error: " \o Extracted.text)
             /\ ~HasRow(job.id)

\* the third transient failure of a job: given up with the "Max retries" text
C22_Witness ==
    /\ pc = "close"
    /\ Extracted.res = "TransientError"
    /\ new_retry_count = 3
    /\ Len(events) = 6
    /\ events[4] = StatusEv(job.image_core_id, 5)
    /\ events[5] = DescriptionEv(job.image_core_id,
         "Error: Max retries (3) exceeded. Last error: Model download failed: timeout")
    /\ events[6] = DeleteEv(job.id)

\* The statements under `if job:`.
UnderIfJob ==
    pc \in {"status_processing", "process", "send_description", "status_done",
            "delete", "increment", "increment_select", "failure_sender",
            "failure_delete"}

\* C23: a cycle that finds the queue empty runs none of the statements under
\* `if job:` (no request, no extraction, no write to the table); it closes its
\* connection, leaves the with block, and sleeps 5 s, always, before the next
\* pass.
C23_IdleCycle ==
    /\ UnderIfJob => job # None
    /\ (job = None /\ raised = "none") =>
          /\ pc = "close" => events = <<>>
          /\ pc = "after_lock" =>
                /\ events = <<>>
                /\ conn = FALSE
                /\ lock = FALSE
                /\ ~ENABLED (Sleep /\ pc' = "start")
          /\ pc = "sleeping" =>
                /\ events = <<SleepEv(5)>>
                /\ conn = FALSE
                /\ lock = FALSE

\* asleep after a fetch that found nothing, in a store that has had rows
C23_Witness ==
    /\ pc = "sleeping"
    /\ job = None
    /\ raised = "none"
    /\ jobs = {}
    /\ seq > 0
    /\ events = <<SleepEv(5)>>
    /\ sleep_time = 5

\* C24 (1): an enqueue adds one row, under the next key, with the correlation id,
\* path and model given and retry_count 0, keeps every row that was there as it
\* was, and emits status=1 for that correlation id.
C24_Insert ==
    seq' # seq =>
        \E c \in CoreIds, p \in ImagePaths, m \in Models :
            /\ jobs' = jobs \cup {Row(seq', c, p, m, 0)}
            /\ Cardinality(jobs') = Cardinality(jobs) + 1
            /\ api' = <<StatusEv(c, 1)>>
            /\ enqueued' = enqueued + 1

\* C24 (2): a correlation id that has a row can be enqueued again.
C24_DuplicateAccepted ==
    seq < MaxJobs =>
        \A c \in CoreIds : ENABLED (AddJob /\ api' = <<StatusEv(c, 1)>>)

\* C24: enqueue of a valid job inserts exactly one new row with the given
\* correlation id, path and model and retry_count = 0, changes no existing row and
\* emits status=1 for that id; a correlation id that already has a row is accepted
\* and gets a second row.
C24_Enqueue == []C24_DuplicateAccepted /\ [][C24_Insert]_vars

\* the same correlation id enqueued twice, second row just added: two rows, the
\* first of them already retried once
C24_Witness ==
    /\ api = <<StatusEv(1, 1)>>
    /\ Row(seq, 1, "a.jpg", "test", 0) \in jobs
    /\ \E r \in jobs : r.id < seq /\ r.image_core_id = 1 /\ r.retry_count = 1

\* C25: init_db can be applied any number of times: it lets no exception out, it
\* leaves a database that has the table and the column exactly as it is (rows and
\* retry_count values included), and on an older database it keeps every row,
\* adding only the column with its default.
C25_InitDbIdempotent ==
    [][ db_applied' = db_applied + 1 =>
          /\ db_error' = "none"
          /\ db'.table /\ db'.column
          /\ (db.table /\ db.column) => db' = db
          /\ db_applied >= 1 => db' = db
          /\ {[r EXCEPT !.retry_count = 0] : r \in db'.rows}
               = {[r EXCEPT !.retry_count = 0] : r \in db.rows}
          /\ init_db(db') = db' ]_vars

\* init_db applied a second time to a table whose rows have been retried
C25_Witness ==
    /\ db_applied = 2
    /\ db_error = "none"
    /\ db.column
    /\ \E r \in db.rows : r.retry_count = 2
    /\ \E r \in db.rows : r.retry_count = 0

\* C26: the retry_count of a job never goes down while its row exists: no step
\* (of the worker, an enqueue, a removal of another job, a restart of the
\* process) leaves a row with a smaller retry_count than it had.
C26_RetryCountMonotone ==
    [][ \A r \in jobs, q \in jobs' : q.id = r.id => q.retry_count >= r.retry_count ]_vars

\* just after a restart of the process: a row retried twice before it is still
\* at 2, with a later row behind it
C26_Witness ==
    /\ pc = "start"
    /\ events = <<>>
    /\ faults >= 1
    /\ \E r \in jobs : r.retry_count = 2
    /\ Cardinality(jobs) = 2

\* C27 (1): the keys assigned so far are 1..seq, one per enqueue: every row has
\* one of them, and no two rows share one.
C27_EverAssigned ==
    /\ seq = enqueued
    /\ \A r \in jobs : r.id \in 1..seq
    /\ \A r, q \in jobs : r.id = q.id => r = q

\* C27 (2): an enqueue gives its row a key greater than every key assigned before,
\* those of deleted rows included, and so greater than that of every row present.
C27_FreshId ==
    /\ seq' >= seq
    /\ jobs' \ jobs # {} /\ Cardinality(jobs') > Cardinality(jobs) =>
         /\ seq' > seq
         /\ \E r \in jobs' \ jobs :
              /\ r.id = seq'
              /\ \A q \in jobs : q.id < r.id

\* C27: the id of a newly enqueued job is strictly greater than every id the store
\* has ever assigned, ids of deleted jobs included: no id is reused and id order
\* is enqueue order.
C27_IdsIncrease == []C27_EverAssigned /\ [][C27_FreshId]_vars

\* the third enqueue after the first two rows were deleted: its key is 3
C27_Witness ==
    /\ seq = 3
    /\ deleted = 2
    /\ api = <<StatusEv(1, 1)>>
    /\ jobs = {Row(3, 1, "a.jpg", "test", 0)}

\* The file is one of the three kinds validate_image is there to refuse.
Missing(in) == ~in.exists

Oversized(in) == in.exists /\ in.getsize = "ok" /\ in.size > MAX_IMAGE_SIZE_BYTES

Corrupt(in) ==
    /\ in.exists
    /\ in.getsize = "ok"
    /\ in.size <= MAX_IMAGE_SIZE_BYTES
    /\ in.open = "UnidentifiedImageError"

\* C28: a missing file, a file larger than MAX_IMAGE_SIZE_BYTES and a corrupt or
\* unrecognised image each make image_to_text raise PermanentError before the
\* model is asked for, the checks being made in that order (a missing file is
\* reported as missing, an oversized file as too large whatever its content); the
\* worker's clause for it is the one that does not retry.
C28_InvalidInputPermanent ==
    x_phase = "out" =>
        /\ Missing(x_in) =>
             x_out = Outcome("PermanentError", "Image file not found: a.jpg", FALSE)
        /\ Oversized(x_in) =>
             x_out = Outcome("PermanentError", "Image file too large", FALSE)
        /\ Corrupt(x_in) =>
             x_out = Outcome("PermanentError", "Invalid or corrupt image file: a.jpg", FALSE)
        /\ (Missing(x_in) \/ Oversized(x_in) \/ Corrupt(x_in)) =>
             Handler(x_out) = "PermanentError"
        /\ ( /\ x_in.exists
             /\ x_in.getsize = "ok"
             /\ x_in.size = MAX_IMAGE_SIZE_BYTES
             /\ x_in.open = "ok" ) => x_out.loaded

\* a file one byte over the limit that is also not an image: refused for its size
C28_Witness ==
    /\ x_phase = "out"
    /\ x_in.exists
    /\ x_in.size = MAX_IMAGE_SIZE_BYTES + 1
    /\ x_in.open = "UnidentifiedImageError"
    /\ x_out.kind = "PermanentError"
    /\ x_out.text = "Image file too large"
    /\ ~x_out.loaded

\* C29: a failure of image_to_text on a file that is neither missing, nor
\* oversized, nor a corrupt or unrecognised image is never PermanentError: it is
\* TransientError or an unexpected exception, both of which the worker retries.
C29_UnknownIsTransient ==
    ( /\ x_phase = "out"
      /\ x_out.kind # "ok"
      /\ ~Missing(x_in)
      /\ ~Oversized(x_in)
      /\ ~Corrupt(x_in) ) =>
        Handler(x_out) \in {"TransientError", "Exception"}

\* C30: every extraction, retries included, comes right after the status=2
\* request for the correlation id of the job in hand, in the same cycle; and
\* however that request ends (a response of any status code, an exception) the
\* extraction is the next thing the worker does.
C30_InProgressBeforeExtraction ==
    /\ Kinds(events, "extract") # {} =>
          /\ events[1] = StatusEv(job.image_core_id, 2)
          /\ events[2] = [events[2] EXCEPT !.kind = "extract", !.who = job.id]
    /\ (Len(events) = 1 /\ events[1].kind = "status" /\ events[1].num = 2) =>
          /\ pc = "process"
          /\ http \in {<<o>> : o \in HttpOutcomes}
          /\ raised = "none"
          /\ ENABLED Process
    /\ pc = "process" => events = <<StatusEv(job.image_core_id, 2)>>

\* a retry of a job: its status=2 request raised and the worker is at the
\* extraction all the same
C30_Witness ==
    /\ pc = "process"
    /\ job.retry_count = 1
    /\ http = <<"exception">>
    /\ events = <<StatusEv(job.image_core_id, 2)>>
    /\ raised = "none"

(***************************************************************************)
(* Deletion after notification, sleeps, the backoff index, the number of   *)
(* extractions, termination, terminal notifications, the frame of a cycle, *)
(* independence of delivery, the connection.                               *)
(***************************************************************************)
\* The two requests that end a job well, as the last events of the cycle so far.
SuccessNotified(evs) ==
    /\ Len(evs) >= 2
    /\ evs[Len(evs) - 1] = DescriptionEv(job.image_core_id, description)
    /\ evs[Len(evs)] = StatusEv(job.image_core_id, 3)

\* The two requests of failure_sender, as the last events of the cycle so far.
FailureNotified(evs) ==
    /\ Len(evs) >= 2
    /\ evs[Len(evs) - 1] = StatusEv(job.image_core_id, 5)
    /\ evs[Len(evs)] = DescriptionEv(job.image_core_id, "Error: " \o error_msg)

\* C31 (1): where the worker stands before one of its two DELETE statements, the
\* terminal notification of the job in hand has been attempted in this cycle; and
\* every delete the cycle has made comes after such a notification.
C31_NotifiedAtDelete ==
    /\ pc = "delete" => SuccessNotified(events)
    /\ pc = "failure_delete" => FailureNotified(events)
    /\ \A i \in Kinds(events, "delete") :
         /\ events[i] = DeleteEv(job.id)
         /\ \/ SuccessNotified(SubSeq(events, 1, i - 1))
            \/ FailureNotified(SubSeq(events, 1, i - 1))

\* C31 (2): the worker takes a row out of the store at those two statements only.
C31_DeleteStatementsOnly ==
    (WorkerStep /\ Cardinality(jobs') < Cardinality(jobs)) =>
        /\ pc \in {"delete", "failure_delete"}
        /\ events' = Append(events, DeleteEv(job.id))

\* C31: the worker deletes a job's row only after it has attempted that job's
\* terminal notification in the same cycle (description and status=3 on success;
\* status=5 and the "Error: ..." description on permanent failure or exhausted
\* retries); in no reachable state has the worker deleted a row whose terminal
\* notification was not yet attempted.
C31_DeleteAfterNotification ==
    []C31_NotifiedAtDelete /\ [][C31_DeleteStatementsOnly]_vars

\* a job retried once, then done: its row deleted after description and status=3
C31_Witness ==
    /\ pc = "close"
    /\ job.retry_count = 1
    /\ Len(events) = 5
    /\ events[3] = DescriptionEv(job.image_core_id, "a meme")
    /\ events[4] = StatusEv(job.image_core_id, 3)
    /\ events[5] = DeleteEv(job.id)
    /\ ~HasRow(job.id)

\* The cycle has deleted the row of its job: the job is ended, well or not.
EndedJob == job # None /\ Kinds(events, "delete") # {}

\* The cycle left the with block by an exception and the outer handler ran.
CycleException == raised \in {"connect", "fetch", "increment", "failure_delete"}

\* The retry clauses took a failure, kept the job and set a delay above 5.
WillRetry ==
    /\ job # None
    /\ caught \in {"TransientError", "Exception"}
    /\ new_retry_count < MAX_RETRY_ATTEMPTS
    /\ sleep_time > DEFAULT_SLEEP

\* C32: after a cycle that ends a job (success, permanent failure, retries used
\* up) the worker does not sleep: from the sleep test it goes to the top of the
\* loop. It is asleep only after a fetch that found nothing, after a failure that
\* the retry clauses keep for another attempt, or after a cycle exception.
C32_SleepOnlyWhenIdleOrRetrying ==
    /\ (pc = "after_lock" /\ EndedJob) =>
          /\ sleep_time = DEFAULT_SLEEP
          /\ ENABLED (Sleep /\ pc' = "start" /\ events' = events)
          /\ ~ENABLED (Sleep /\ pc' = "sleeping")
    /\ pc = "sleeping" =>
          /\ ~EndedJob
          /\ \/ job = None /\ events = <<SleepEv(DEFAULT_SLEEP)>>
             \/ WillRetry /\ events[Len(events)] = SleepEv(sleep_time)
             \/ CycleException /\ events[Len(events)] = SleepEv(5)
    /\ (pc = "start" /\ EndedJob) => Kinds(events, "sleep") = {}

\* back at the top of the loop, without a sleep, after giving a job up
C32_Witness ==
    /\ pc = "start"
    /\ EndedJob
    /\ new_retry_count = 3
    /\ FailureSent(events)
    /\ Kinds(events, "sleep") = {}
    /\ events[Len(events)] = DeleteEv(job.id)

\* The cycle has computed a backoff delay from the count it read back.
BackoffComputed ==
    /\ pc = "close"
    /\ job # None
    /\ caught \in {"TransientError", "Exception"}
    /\ Kinds(events, "increment") # {}
    /\ new_retry_count < MAX_RETRY_ATTEMPTS

\* C33: wherever the worker has computed a backoff delay, the retry number n it
\* used is at least 1 and the index min(n - 1, len(RETRY_DELAYS) - 1) is one of
\* 0 .. len(RETRY_DELAYS) - 1, so the delay is the entry of the table for that
\* retry; also when a removal request took the row away during the extraction.
C33_BackoffIndexInRange ==
    BackoffComputed =>
        /\ new_retry_count >= 1
        /\ delay_index(new_retry_count) \in 0..(Len(RETRY_DELAYS) - 1)
        /\ sleep_time = RETRY_DELAYS[delay_index(new_retry_count) + 1]

\* No store statement has raised and the process has not died.
NoFaults == faults = 0

\* The row of the job in hand as the store has it now.
StoredRetryCount(id) == SelectRetryCount(jobs, id)

\* C34: without crashes and store errors a row is extracted at most
\* MAX_RETRY_ATTEMPTS times: the extraction is called only on a row whose
\* retry_count is below MAX_RETRY_ATTEMPTS, and every cycle that has called it
\* ends with the row gone or with its retry_count one higher and still below
\* MAX_RETRY_ATTEMPTS, whatever the extraction returned or raised; the count never
\* goes down, so the third extraction of a row is its last.
C34_BoundedExtractions ==
    NoFaults =>
        /\ pc \in {"status_processing", "process"} =>
              /\ job.retry_count < MAX_RETRY_ATTEMPTS
              /\ HasRow(job.id) => job \in jobs
        /\ pc \notin {"increment_select", "failure_sender", "failure_delete"} =>
              \A r \in jobs : r.retry_count < MAX_RETRY_ATTEMPTS
        /\ \A r \in jobs : r.retry_count <= MAX_RETRY_ATTEMPTS
        /\ (pc \in {"close", "after_lock", "sleeping"} /\ job # None) =>
              \/ ~HasRow(job.id)
              \/ /\ Extracted.res \in {"TransientError", "Exception"}
                 /\ StoredRetryCount(job.id) = job.retry_count + 1
                 /\ StoredRetryCount(job.id) < MAX_RETRY_ATTEMPTS
                 /\ new_retry_count = StoredRetryCount(job.id)

\* the third extraction of a row raised an unclassified exception after two
\* transient failures or the like: the row is given up and gone
C34_Witness ==
    /\ NoFaults
    /\ pc = "after_lock"
    /\ job.retry_count = MAX_RETRY_ATTEMPTS - 1
    /\ Extracted.res = "Exception"
    /\ new_retry_count = MAX_RETRY_ATTEMPTS
    /\ ~HasRow(job.id)
    /\ jobs # {}

\* The keys a row can have.
Ids == 1..MaxJobs

\* C35 (1): every row that is in the store is removed from it at some later time.
C35_EveryJobRemoved == \A id \in Ids : HasRow(id) ~> ~HasRow(id)

\* C35 (2): the queue becomes empty and stays empty, unless enqueues never stop.
C35_DrainsWhenEnqueuesStop ==
    \/ <>[](jobs = {})
    \/ []<><<seq' # seq>>_vars

\* C35: with the worker thread running on (weak fairness of its steps), every
\* extraction returning or raising and no store error, every enqueued job is
\* removed from the store in the end (done, failed for good, retries used up, or
\* removed by request), and once enqueues have stopped the queue becomes empty
\* and stays so.
C35_QueueDrains == C35_EveryJobRemoved /\ C35_DrainsWhenEnqueuesStop

\* the worker idle on an empty store after every job that was enqueued has gone,
\* the last of them given up after its retries
C35_Witness ==
    /\ jobs = {}
    /\ seq = MaxJobs
    /\ enqueued = MaxJobs
    /\ deleted = MaxJobs
    /\ pc = "start"
    /\ job # None
    /\ new_retry_count = MAX_RETRY_ATTEMPTS

\* The positions of the terminal statuses (3 = done, 5 = failed) in a log.
TerminalStatuses(evs) ==
    {i \in Kinds(evs, "status") : evs[i].num \in {3, 5}}

\* C36: for one job row the worker sends at most one terminal status, done (3)
\* or failed (5), never both and never one twice, also over cycles in which the
\* DELETE or its commit fails; in particular the log of one cycle, which is the
\* log of one row, holds at most one terminal status.
C36_OneTerminalNotification ==
    job # None =>
        /\ Cardinality(TerminalStatuses(events)) <= 1
        /\ \A i \in TerminalStatuses(events) : events[i].who = job.image_core_id

\* The rows of a table other than the row with this key.
OtherRows(table, id) == {r \in table : r.id # id}

\* C37 (1): a step of the worker leaves every row but that of the job in hand as
\* it is (key, correlation id, path, model, retry_count), adds no row, and with
\* no job in hand changes nothing in the store.
C37_OtherRowsUnchanged ==
    WorkerStep =>
        /\ OtherRows(jobs', job.id) = OtherRows(jobs, job.id)
        /\ job = None => jobs' = jobs

\* C37 (2): the row the worker takes in hand is the head row as the store has it,
\* and it keeps that one job for the rest of the cycle.
C37_ReadsHeadOnly ==
    (WorkerStep /\ job' # job) =>
        \/ job' = None
        \/ pc = "fetch" /\ job = None /\ job' = SelectHead(jobs) /\ job' \in jobs

\* C37: a worker cycle reads and writes only the head job: every other row of the
\* store is unchanged by the cycle, whatever its outcome (success, permanent
\* failure, transient failure, retries used up, cycle exception).
C37_CycleFrame == [][C37_OtherRowsUnchanged /\ C37_ReadsHeadOnly]_vars

\* the head row given up and deleted after its third failure while a second row
\* waits untouched
C37_Witness ==
    /\ pc = "close"
    /\ new_retry_count = MAX_RETRY_ATTEMPTS
    /\ ~HasRow(job.id)
    /\ Kinds(events, "delete") # {}
    /\ \E r \in jobs : r.id > job.id /\ r.retry_count = 0
    /\ Cardinality(jobs) = 1

\* The statements of the worker that call a sender.
SenderCalls == {"status_processing", "send_description", "status_done", "failure_sender"}

\* A step of the worker that calls a sender.
SenderStep == StatusProcessing \/ SendDescription \/ StatusDone \/ FailureSender

\* The ways the requests of the sender called at a statement can end.
Deliveries(at) ==
    IF at = "failure_sender"
    THEN HttpOutcomes \X HttpOutcomes
    ELSE {<<o>> : o \in HttpOutcomes}

\* The requests the sender called at a statement makes.
Requests(at) ==
    CASE at = "status_processing" -> <<StatusEv(job.image_core_id, 2)>>
      [] at = "send_description" -> <<DescriptionEv(job.image_core_id, description)>>
      [] at = "status_done" -> <<StatusEv(job.image_core_id, 3)>>
      [] at = "failure_sender" -> FailureEvents(job.image_core_id, error_msg)

\* The statement after a sender call.
StatementAfter(at) ==
    IF at = "failure_sender" THEN "failure_delete" ELSE AfterSender(at)

\* What a sender call does to everything but the record of how its requests
\* ended: the same, whatever that record says.
DeliveryBlind ==
    /\ pc' = StatementAfter(pc)
    /\ events' = events \o Requests(pc)
    /\ jobs' = jobs
    /\ seq' = seq
    /\ deleted' = deleted
    /\ enqueued' = enqueued
    /\ job' = job
    /\ lock' = lock
    /\ conn' = conn
    /\ sleep_time' = sleep_time
    /\ new_retry_count' = new_retry_count
    /\ caught' = caught
    /\ e' = e
    /\ description' = description
    /\ error_msg' = error_msg
    /\ raised' = raised
    /\ faults' = faults

\* C38: the store does not depend on the delivery of notifications. Wherever the
\* worker calls a sender, each way the requests can end (200, another code, an
\* exception) is possible and leads to the same store, the same job in hand with
\* the same retry budget and the same next statement; no ending leads anywhere
\* else. Only the sender calls record deliveries, so two runs with the same
\* requests and the same extraction outcomes go through the same store states and
\* the same extractions.
C38_DeliveryIndependence ==
    pc \in SenderCalls =>
        /\ \A h \in Deliveries(pc) : ENABLED (SenderStep /\ http' = h /\ DeliveryBlind)
        /\ ~ENABLED (SenderStep /\ ~DeliveryBlind)

\* a job given up whose two failure requests both got a 500: the worker is at the
\* DELETE all the same, the row still in the store
C38_Witness ==
    /\ pc = "failure_delete"
    /\ http = <<"500", "500">>
    /\ job \in jobs
    /\ job.retry_count = 0
    /\ Extracted.res = "PermanentError"
    /\ raised = "none"

\* C39: the worker has no open connection while it sleeps. The connection of a
\* cycle is open only inside the with block, where the lock is held, or on the way
\* into the outer handler after an exception; it is closed where the block ends
\* and by the handler before its 5 s sleep, so at the sleep test, asleep and at the
\* top of the loop there is none.
C39_NoConnectionAsleep ==
    /\ pc \in {"after_lock", "sleeping", "start", "connect"} => conn = FALSE
    /\ conn = TRUE => (lock = TRUE /\ InsideLock) \/ pc = "except"
    /\ (pc = "except" /\ raised # "connect") => conn = TRUE
    /\ pc = "except" => ENABLED (Except /\ conn' = FALSE /\ pc' = "sleeping")

\* asleep in the outer handler after the UPDATE of increment_retry_count raised
\* with a connection open and a job in hand: the handler has closed it
C39_Witness ==
    /\ pc = "sleeping"
    /\ raised = "increment"
    /\ job # None
    /\ conn = FALSE
    /\ events[Len(events)] = SleepEv(5)

====
